---- MODULE Spec2Model ----
(***************************************************************************)
(* Model of process_metrics_file.py: the Excel class that re-aligns the    *)
(* [Analysis status] block of a MetricsOutput sheet (move_rows), marks the *)
(* FALSE cells of row 17 (mark_false), marks the contamination pair        *)
(* (mark_contamination_metrics) and the single metrics                     *)
(* (mark_other_metrics), and saves the workbook (modify).                  *)
(*                                                                         *)
(* Rows and columns are 1-based (Excel) throughout: the data frame's       *)
(* 0-based index i is row/column i+1 here, so the sample columns           *)
(* range(3, ncols) are the columns 4..ncols.                               *)
(***************************************************************************)
EXTENDS Integers, Sequences, FiniteSets, TLC

VARIABLES ws, df, hl, pc, err, fileExists, saved, passes

vars == <<ws, df, hl, pc, err, fileExists, saved, passes>>

(***************************************************************************)
(* Cell values.  The loader stores a float where the text parses as one    *)
(* and the text otherwise; an absent cell reads as None; the data frame    *)
(* turns the None of an all-numeric column into NaN.                       *)
(***************************************************************************)
Num(n) == [t |-> "num", n |-> n, s |-> ""]
Str(s) == [t |-> "str", n |-> 0, s |-> s]
None == [t |-> "none", n |-> 0, s |-> ""]
NaN == [t |-> "nan", n |-> 0, s |-> ""]
Unbound == [t |-> "unbound", n |-> 0, s |-> ""]

NA == Str("NA")
FALSE_STRING == Str("FALSE")
TRUE_STRING == Str("TRUE")

IsNum(v) == v.t = "num"
IsStr(v) == v.t = "str"

\* Program constants of move_rows and mark_false.
FIRST_ROW == 16
LAST_ROW == 19
FIRST_COL == 2
SHIFT == 2
LAST_COL_OFFSET == 2
STATUS_ROW == 17
FIRST_SAMPLE_COL == 4

elements_to_find ==
    << "CONTAMINATION_SCORE (NA)", "CONTAMINATION_P_VALUE (NA)" >>

metrics_to_find ==
    << "MEDIAN_INSERT_SIZE (bp)",
       "MEDIAN_EXON_COVERAGE (Count)",
       "PCT_EXON_50X (%)",
       "USABLE_MSI_SITES (Count)",
       "COVERAGE_MAD (Count)",
       "MEDIAN_BIN_COUNT_CNV_TARGET (Count)",
       "MEDIAN_CV_GENE_500X (%)",
       "TOTAL_ON_TARGET_READS (Count)",
       "MEDIAN_INSERT_SIZE (Count)" >>

Range(seq) == { seq[i] : i \in 1..Len(seq) }

(***************************************************************************)
(* Python's comparisons.  Ordering is defined between two numbers (NaN     *)
(* compares false with every number) and between two strings (by code      *)
(* point); every other pair raises TypeError.  The result is "T", "F" or   *)
(* "E" (raised).                                                           *)
(***************************************************************************)
StrOrder ==
    << "CONTAMINATION_P_VALUE (NA)", "CONTAMINATION_SCORE (NA)",
       "COVERAGE_MAD (Count)", "FALSE", "LSL Guideline",
       "MEDIAN_BIN_COUNT_CNV_TARGET (Count)", "MEDIAN_CV_GENE_500X (%)",
       "MEDIAN_EXON_COVERAGE (Count)", "MEDIAN_INSERT_SIZE (Count)",
       "MEDIAN_INSERT_SIZE (bp)", "Metric (UOM)", "NA",
       "PCT_EXON_50X (%)", "Sample", "TOTAL_ON_TARGET_READS (Count)",
       "TRUE", "USABLE_MSI_SITES (Count)", "USL Guideline",
       "[Analysis Status]", "[Notes]", "abc" >>

StrRank(s) == CHOOSE i \in 1..Len(StrOrder) : StrOrder[i] = s

IsNumeric(v) == v.t \in {"num", "nan"}

PyLt(a, b) ==
    IF IsNumeric(a) /\ IsNumeric(b)
    THEN IF IsNum(a) /\ IsNum(b) /\ a.n < b.n THEN "T" ELSE "F"
    ELSE IF IsStr(a) /\ IsStr(b)
    THEN IF StrRank(a.s) < StrRank(b.s) THEN "T" ELSE "F"
    ELSE "E"

PyGt(a, b) == PyLt(b, a)

\* A variant that also counts the lower limit itself as outside.
OutsideLimitsInclusive(x, LSL, USL) ==
    LET lo == IF x = LSL THEN "T" ELSE PyLt(x, LSL)
    IN IF lo # "F" THEN lo ELSE PyGt(x, USL)

\* `x < LSL or x > USL`, evaluated left to right with short circuit.
OutsideLimits(x, LSL, USL) ==
    LET lo == PyLt(x, LSL)
    IN IF lo # "F" THEN lo ELSE PyGt(x, USL)

(***************************************************************************)
(* The worksheet is a rectangle of Len(w) rows and max_column(w) columns.   *)
(***************************************************************************)
max_column(w) == IF Len(w) = 0 THEN 0 ELSE Len(w[1])

\* pd.DataFrame(ws.values): a column holding numbers and absent cells only
\* becomes a float column whose absent cells are NaN.
DataFrame(w) ==
    LET numeric == { c \in 1..max_column(w) :
                       /\ \A r \in 1..Len(w) : w[r][c].t \in {"num", "none"}
                       /\ \E r \in 1..Len(w) : w[r][c].t = "num" }
    IN [r \in 1..Len(w) |->
           [c \in 1..max_column(w) |->
               IF w[r][c].t = "none" /\ c \in numeric THEN NaN ELSE w[r][c]]]

(***************************************************************************)
(* df.stack().index[df.stack() == s]: the positions << row, column >> of   *)
(* the cells equal to the string s, row by row and, within a row, column   *)
(* by column.                                                              *)
(***************************************************************************)
Holds(v, s) == v.t = "str" /\ v.s = s

\* The members of a set of integers in increasing order.
RECURSIVE Ascending(_)
Ascending(S) ==
    IF S = {} THEN << >>
    ELSE LET m == CHOOSE x \in S : \A y \in S : x <= y
         IN << m >> \o Ascending(S \ {m})

RECURSIVE RowByRow(_, _, _)
RowByRow(d, s, rows) ==
    IF rows = << >> THEN << >>
    ELSE LET r == Head(rows)
             cols == Ascending({ c \in 1..Len(d[r]) : Holds(d[r][c], s) })
         IN [i \in 1..Len(cols) |-> << r, cols[i] >>]
            \o RowByRow(d, s, Tail(rows))

StackIndexOf(d, s) ==
    RowByRow(d, s,
             Ascending({ r \in 1..Len(d) :
                           \E c \in 1..Len(d[r]) : Holds(d[r][c], s) }))

NoError == [kind |-> "none", pass |-> "", row |-> 0, col |-> 0]
Raised(kind, pass, row, col) ==
    [kind |-> kind, pass |-> pass, row |-> row, col |-> col]

(***************************************************************************)
(* move_rows: ws.move_range("B16:<max_column - 2>19", cols=2).             *)
(* get_column_letter rejects an index below 1 and the range is rejected    *)
(* when its last column lies before its first; otherwise the cells of the  *)
(* range move one by one, last column first, each replacing the cell at    *)
(* its destination and leaving its own place absent.  A cell of the range  *)
(* that does not exist yet is created, so the sheet then has at least      *)
(* LAST_ROW rows.                                                          *)
(***************************************************************************)
MoveLastCol(w) == max_column(w) - LAST_COL_OFFSET

Padded(w) ==
    [r \in 1..(IF Len(w) < LAST_ROW THEN LAST_ROW ELSE Len(w)) |->
        IF r <= Len(w) THEN w[r] ELSE [c \in 1..max_column(w) |-> None]]

\* A variant that moves a cell by one column.
MoveCellByOne(w, r, c) ==
    [w EXCEPT ![r] = [@ EXCEPT ![c + 1] = w[r][c], ![c] = None]]

MoveCell(w, r, c) ==
    [w EXCEPT ![r] = [@ EXCEPT ![c + SHIFT] = w[r][c], ![c] = None]]

\* The moves, in the order move_range makes them: columns from the last to
\* the first, the rows of a column from the first to the last.
MoveOrder(w) ==
    LET nrows == LAST_ROW - FIRST_ROW + 1
        ncols == MoveLastCol(w) - FIRST_COL + 1
    IN [k \in 1..(nrows * ncols) |->
          << FIRST_ROW + ((k - 1) % nrows),
             MoveLastCol(w) - ((k - 1) \div nrows) >>]

RECURSIVE MoveAll(_, _, _)
MoveAll(w, order, i) ==
    IF i > Len(order) THEN w
    ELSE MoveAll(MoveCell(w, order[i][1], order[i][2]), order, i + 1)

\* A variant that also rejects a sheet with fewer rows than the range.
MoveRangeFailsOnShortSheet(w) ==
    \/ max_column(w) - LAST_COL_OFFSET < FIRST_COL
    \/ Len(w) < LAST_ROW

MoveRangeFails(w) ==
    \/ MoveLastCol(w) < 1
    \/ MoveLastCol(w) < FIRST_COL

MoveRange(w) == MoveAll(Padded(w), MoveOrder(w), 1)

move_rows ==
    /\ pc = "start"
    /\ passes' = Append(passes, "move_rows")
    /\ IF MoveRangeFails(ws)
       THEN /\ pc' = "error"
            /\ err' = Raised("ValueError", "move_rows", 0, 0)
            /\ UNCHANGED <<ws, df>>
       ELSE /\ ws' = MoveRange(ws)
            /\ df' = DataFrame(MoveRange(ws))
            /\ pc' = "moved"
            /\ UNCHANGED err
    /\ UNCHANGED <<hl, fileExists, saved>>

(***************************************************************************)
(* mark_false: every cell equal to "FALSE", in stack order; the first one  *)
(* outside row 17 removes the file and raises, the ones of row 17 met      *)
(* before it are highlighted.                                              *)
(***************************************************************************)
\* A variant that looks for FALSE in the sample columns only.
false_cells_of_samples(d) ==
    SelectSeq(StackIndexOf(d, "FALSE"), LAMBDA p : p[2] >= FIRST_SAMPLE_COL)

false_cells_indices(d) == StackIndexOf(d, "FALSE")

\* A variant that compares the 0-based row index with 17.
FirstOutsideOffByOne(idxs) ==
    LET bad == { i \in 1..Len(idxs) : idxs[i][1] - 1 # STATUS_ROW }
    IN IF bad = {} THEN 0 ELSE CHOOSE i \in bad : \A j \in bad : i <= j

FirstOutside(idxs) ==
    LET bad == { i \in 1..Len(idxs) : idxs[i][1] # STATUS_ROW }
    IN IF bad = {} THEN 0 ELSE CHOOSE i \in bad : \A j \in bad : i <= j

mark_false ==
    /\ pc = "moved"
    /\ passes' = Append(passes, "mark_false")
    /\ LET idxs == false_cells_indices(df)
           stop == FirstOutside(idxs)
       IN IF stop = 0
          THEN /\ hl' = hl \cup Range(idxs)
               /\ pc' = "false_marked"
               /\ UNCHANGED <<err, fileExists>>
          ELSE /\ hl' = hl \cup { idxs[j] : j \in 1..(stop - 1) }
               /\ fileExists' = FALSE
               /\ pc' = "error"
               /\ err' = Raised("TypeError", "mark_false",
                                idxs[stop][1], idxs[stop][2])
    /\ UNCHANGED <<ws, df, saved>>

(***************************************************************************)
(* mark_contamination_metrics.  The locals value_to_compare, LSL, USL and  *)
(* sample_to_highlight live for the whole call: a label that is not found  *)
(* leaves them as the previous iteration set them, or unbound.             *)
(***************************************************************************)
NoLocals == [value_to_compare |-> Unbound, LSL |-> Unbound, USL |-> Unbound,
             sample_to_highlight |-> "unbound"]

Last(seq) == seq[Len(seq)]

\* The `for idx in indices` loop of one element for sample column s: every
\* index sets value_to_compare, an index in the first column sets the limits.
AfterIndices(d, s, element, loc) ==
    LET indices == StackIndexOf(d, element)
        first == SelectSeq(indices, LAMBDA p : p[2] = 1)
    IN [loc EXCEPT
          !.value_to_compare =
              IF Len(indices) = 0 THEN @ ELSE d[Last(indices)[1]][s],
          !.LSL = IF Len(first) = 0 THEN @ ELSE d[Last(first)[1]][2],
          !.USL = IF Len(first) = 0 THEN @ ELSE d[Last(first)[1]][3]]

\* A variant without the break: a value inside the limits lets the loop go
\* on to the next element.
VerdictNoBreak(loc) ==
    IF loc.value_to_compare = Unbound THEN "UnboundLocalError"
    ELSE IF loc.value_to_compare = NA THEN "next:F"
    ELSE IF loc.LSL = Unbound THEN "UnboundLocalError"
    ELSE LET out == OutsideLimits(loc.value_to_compare, loc.LSL, loc.USL)
         IN IF out = "E" THEN "TypeError"
            ELSE IF out = "T" THEN "next:T"
            ELSE "next:F"

\* The if / elif / else that follows: "next" (go on with the next element),
\* "break", or the exception raised.
Verdict(loc) ==
    IF loc.value_to_compare = Unbound THEN "UnboundLocalError"
    ELSE IF loc.value_to_compare = NA THEN "next:F"
    ELSE IF loc.LSL = Unbound THEN "UnboundLocalError"
    ELSE LET out == OutsideLimits(loc.value_to_compare, loc.LSL, loc.USL)
         IN IF out = "E" THEN "TypeError"
            ELSE IF out = "T" THEN "next:T"
            ELSE "break:F"

ErrorRow(d, element) ==
    LET indices == StackIndexOf(d, element)
    IN IF Len(indices) = 0 THEN 0 ELSE Last(indices)[1]

\* The `for element in elements_to_find` loop for sample column s, from
\* element number e on.
RECURSIVE ElementLoop(_, _, _, _)
ElementLoop(d, s, e, loc) ==
    IF e > Len(elements_to_find) THEN [loc |-> loc, err |-> NoError]
    ELSE LET after == AfterIndices(d, s, elements_to_find[e], loc)
             v == Verdict(after)
         IN IF v \in {"UnboundLocalError", "TypeError"}
            THEN [loc |-> after,
                  err |-> Raised(v, "mark_contamination_metrics",
                                 ErrorRow(d, elements_to_find[e]), s)]
            ELSE IF v = "next:T"
            THEN ElementLoop(d, s, e + 1,
                             [after EXCEPT !.sample_to_highlight = "T"])
            ELSE IF v = "next:F"
            THEN ElementLoop(d, s, e + 1,
                             [after EXCEPT !.sample_to_highlight = "F"])
            ELSE [loc |-> [after EXCEPT !.sample_to_highlight = "F"],
                  err |-> NoError]

\* Every cell of column s in a row holding one of the elements.
ContaminationCells(d, s) ==
    { << p[1], s >> :
        p \in UNION { Range(StackIndexOf(d, elements_to_find[e])) :
                        e \in 1..Len(elements_to_find) } }

\* The `for sample_col_index` loop from column s on.
RECURSIVE SampleLoop(_, _, _, _)
SampleLoop(d, s, loc, marked) ==
    IF s > max_column(d) THEN [hl |-> marked, err |-> NoError]
    ELSE LET r == ElementLoop(d, s, 1, loc)
         IN IF r.err # NoError THEN [hl |-> marked, err |-> r.err]
            ELSE SampleLoop(d, s + 1, r.loc,
                    IF r.loc.sample_to_highlight = "T"
                    THEN marked \cup ContaminationCells(d, s)
                    ELSE marked)

ContaminationPass(d, marked) == SampleLoop(d, FIRST_SAMPLE_COL, NoLocals, marked)

mark_contamination_metrics ==
    /\ pc = "false_marked"
    /\ passes' = Append(passes, "mark_contamination_metrics")
    /\ LET r == ContaminationPass(df, hl)
       IN /\ hl' = r.hl
          /\ err' = r.err
          /\ pc' = IF r.err = NoError THEN "contamination_marked" ELSE "error"
    /\ UNCHANGED <<ws, df, fileExists, saved>>

(***************************************************************************)
(* mark_other_metrics.                                                     *)
(***************************************************************************)
\* The indices of every metric of metrics_to_find, metric after metric.
RECURSIVE MetricIndices(_, _)
MetricIndices(d, m) ==
    IF m > Len(metrics_to_find) THEN << >>
    ELSE StackIndexOf(d, metrics_to_find[m]) \o MetricIndices(d, m + 1)

\* A variant whose one-sided branches test the wrong side.
OtherVerdictSwapped(d, idx, s) ==
    IF idx[2] + 2 > max_column(d) THEN "KeyError"
    ELSE LET LSL == d[idx[1]][idx[2] + 1]
             USL == d[idx[1]][idx[2] + 2]
             sample_value == d[idx[1]][s]
             decide(cmp) == IF cmp = "E" THEN "TypeError"
                            ELSE IF cmp = "T" THEN "mark" ELSE "skip"
         IN IF LSL = NA /\ USL = NA THEN "skip"
            ELSE IF LSL = NA /\ sample_value # NA
            THEN decide(PyLt(sample_value, USL))
            ELSE IF USL = NA /\ sample_value # NA
            THEN decide(PyGt(sample_value, LSL))
            ELSE IF sample_value # NA
            THEN decide(OutsideLimits(sample_value, LSL, USL))
            ELSE "skip"

\* A variant that compares an NA sample value like any other.
OtherVerdictNoNaCheck(d, idx, s) ==
    IF idx[2] + 2 > max_column(d) THEN "KeyError"
    ELSE LET LSL == d[idx[1]][idx[2] + 1]
             USL == d[idx[1]][idx[2] + 2]
             sample_value == d[idx[1]][s]
             decide(cmp) == IF cmp = "E" THEN "TypeError"
                            ELSE IF cmp = "T" THEN "mark" ELSE "skip"
         IN IF LSL = NA /\ USL = NA THEN "skip"
            ELSE IF LSL = NA
            THEN decide(PyGt(sample_value, USL))
            ELSE IF USL = NA
            THEN decide(PyLt(sample_value, LSL))
            ELSE decide(OutsideLimits(sample_value, LSL, USL))

\* The body of `for idx in indices` for the label at idx and sample column
\* s: "mark", "skip", or the exception raised.
OtherVerdict(d, idx, s) ==
    IF idx[2] + 2 > max_column(d) THEN "KeyError"
    ELSE LET LSL == d[idx[1]][idx[2] + 1]
             USL == d[idx[1]][idx[2] + 2]
             sample_value == d[idx[1]][s]
             decide(cmp) == IF cmp = "E" THEN "TypeError"
                            ELSE IF cmp = "T" THEN "mark" ELSE "skip"
         IN IF LSL = NA /\ USL = NA THEN "skip"
            ELSE IF LSL = NA /\ sample_value # NA
            THEN decide(PyGt(sample_value, USL))
            ELSE IF USL = NA /\ sample_value # NA
            THEN decide(PyLt(sample_value, LSL))
            ELSE IF sample_value # NA
            THEN decide(OutsideLimits(sample_value, LSL, USL))
            ELSE "skip"

\* The two outer loops, from sample column s and index number i on.
RECURSIVE OtherLoop(_, _, _, _, _)
OtherLoop(d, indices, s, i, marked) ==
    IF s > max_column(d) THEN [hl |-> marked, err |-> NoError]
    ELSE IF i > Len(indices) THEN OtherLoop(d, indices, s + 1, 1, marked)
    ELSE LET v == OtherVerdict(d, indices[i], s)
         IN IF v \in {"KeyError", "TypeError"}
            THEN [hl |-> marked,
                  err |-> Raised(v, "mark_other_metrics", indices[i][1], s)]
            ELSE OtherLoop(d, indices, s, i + 1,
                    IF v = "mark" THEN marked \cup { << indices[i][1], s >> }
                    ELSE marked)

OtherPass(d, marked) ==
    OtherLoop(d, MetricIndices(d, 1), FIRST_SAMPLE_COL, 1, marked)

mark_other_metrics ==
    /\ pc = "contamination_marked"
    /\ passes' = Append(passes, "mark_other_metrics")
    /\ LET r == OtherPass(df, hl)
       IN /\ hl' = r.hl
          /\ err' = r.err
          /\ pc' = IF r.err = NoError THEN "other_marked" ELSE "error"
    /\ UNCHANGED <<ws, df, fileExists, saved>>

(***************************************************************************)
(* modify's last step: wb.save(self.file) writes the workbook with the     *)
(* highlights made so far.                                                 *)
(***************************************************************************)
save ==
    /\ pc = "other_marked"
    /\ passes' = Append(passes, "save")
    /\ saved' = TRUE
    /\ fileExists' = TRUE
    /\ pc' = "done"
    /\ UNCHANGED <<ws, df, hl, err>>

Next ==
    \/ move_rows
    \/ mark_false
    \/ mark_contamination_metrics
    \/ mark_other_metrics
    \/ save

(***************************************************************************)
(* Initial sheets.  The state after Excel.__init__: tsv_to_excel has       *)
(* written the file, the sheet is loaded and df mirrors it.  A sheet is    *)
(* the layout of a MetricsOutput report cut to the rows the program reads: *)
(*   row 1      the column headers                                         *)
(*   row 2      one single metric: label, LSL, USL, one value per sample   *)
(*   rows 3, 4  CONTAMINATION_SCORE and CONTAMINATION_P_VALUE              *)
(*   rows 16-19 the [Analysis Status] block, whose sample values start in  *)
(*              column B until move_rows shifts them                       *)
(*   row 20     a trailing note                                            *)
(* with the cells listed in ov set to the values ov gives.                 *)
(***************************************************************************)
MaxNum == 3
MaxSamples == 2
MaxCols == 6
MaxRows == 20

Nums == { Num(n) : n \in 0..MaxNum }
LowLimit == Num(1)
HighLimit == Num(MaxNum - 1)

ROW_METRIC == 2
ROW_SCORE == ROW_METRIC + 1
ROW_P_VALUE == ROW_SCORE + 1

DefaultCell(r, c, nc) ==
    IF r = 1
    THEN IF c = 1 THEN Str("Metric (UOM)")
         ELSE IF c = 2 THEN Str("LSL Guideline")
         ELSE IF c = 3 THEN Str("USL Guideline")
         ELSE Str("Sample")
    ELSE IF r \in {ROW_METRIC, ROW_SCORE, ROW_P_VALUE}
    THEN IF c = 1
         THEN IF r = ROW_METRIC THEN Str(metrics_to_find[1])
              ELSE Str(elements_to_find[r - ROW_SCORE + 1])
         ELSE IF c = 2 THEN LowLimit
         ELSE IF c = 3 THEN HighLimit
         ELSE LowLimit
    ELSE IF r \in FIRST_ROW..LAST_ROW
    THEN IF c = 1 THEN Str("[Analysis Status]")
         ELSE IF c <= nc - SHIFT THEN TRUE_STRING
         ELSE None
    ELSE IF r = MaxRows /\ c = 1 THEN Str("[Notes]")
    ELSE None

Sheet(nr, nc, ov) ==
    LET cells == ov
        set == DOMAIN cells
    IN [r \in 1..nr |->
          [c \in 1..nc |->
              IF << r, c >> \in set THEN cells[<< r, c >>]
              ELSE DefaultCell(r, c, nc)]]

\* The cells c0, c0+1, ... of row r set to the values of the sequence vals.
RowCells(r, c0, vals) ==
    [p \in { << r, c0 + i - 1 >> : i \in 1..Len(vals) } |-> vals[p[2] - c0 + 1]]

\* The sequences of length n over the set S.
Tuples(n, S) == [1..n -> S]

InitWith(w) ==
    /\ ws = w
    /\ df = DataFrame(ws)
    /\ hl = {}
    /\ pc = "start"
    /\ err = NoError
    /\ fileExists = TRUE
    /\ saved = FALSE
    /\ passes = << >>

(***************************************************************************)
(* Spec: the single metric of row 2 with every label, limit and sample     *)
(* value of the bounded sets.                                              *)
(***************************************************************************)
MetricLabels == { Str(metrics_to_find[1]), Str(metrics_to_find[9]), Str("abc") }
LimitValues == Nums \cup {NA}
SampleValues == Nums \cup {NA}

Init ==
    \E ns \in 1..MaxSamples :
    \E label \in MetricLabels, L \in LimitValues, U \in LimitValues :
    \E vals \in Tuples(ns, SampleValues) :
        InitWith(Sheet(MaxRows, FIRST_SAMPLE_COL - 1 + ns,
                       RowCells(ROW_METRIC, 1, << label, L, U >> \o vals)))

Spec == Init /\ [][Next]_vars

(***************************************************************************)
(* SpecContam: the contamination pair of rows 3 and 4 under the limits     *)
(* LowLimit and HighLimit, every sample holding a score and a p-value      *)
(* below, at, or above the limits, or NA.                                  *)
(***************************************************************************)
ContaminationValues == { Num(0), LowLimit, HighLimit, Num(MaxNum), NA }

InitContam ==
    \E ns \in 1..MaxSamples :
    \E scores \in Tuples(ns, ContaminationValues) :
    \E p_values \in Tuples(ns, ContaminationValues) :
        InitWith(Sheet(MaxRows, FIRST_SAMPLE_COL - 1 + ns,
                       RowCells(ROW_SCORE, FIRST_SAMPLE_COL, scores)
                       @@ RowCells(ROW_P_VALUE, FIRST_SAMPLE_COL, p_values)))

SpecContam == InitContam /\ [][Next]_vars

(***************************************************************************)
(* SpecStatus: the status row 17 holding TRUE or FALSE for every sample,   *)
(* and FALSE written to any of a few other cells: the label and a late     *)
(* column of row 17, rows 16 and 18 of the block (in row 18 also the last  *)
(* column, which the shift overwrites), a sample value of the metric row   *)
(* and the trailing note.                                                  *)
(***************************************************************************)
StrayCells(nc) ==
    { << STATUS_ROW, 1 >>, << STATUS_ROW, nc - 1 >>, << FIRST_ROW, FIRST_COL >>,
      << STATUS_ROW + 1, FIRST_COL >>, << STATUS_ROW + 1, nc >>,
      << ROW_METRIC, FIRST_SAMPLE_COL >>,
      << MaxRows, 1 >> }

InitStatus ==
    \E ns \in 1..MaxSamples :
    \E status \in Tuples(ns, { TRUE_STRING, FALSE_STRING }) :
    \E stray \in SUBSET StrayCells(FIRST_SAMPLE_COL - 1 + ns) :
        InitWith(Sheet(MaxRows, FIRST_SAMPLE_COL - 1 + ns,
                       RowCells(STATUS_ROW, FIRST_COL, status)
                       @@ [p \in stray |-> FALSE_STRING]))

SpecStatus == InitStatus /\ [][Next]_vars

(***************************************************************************)
(* SpecLayout: sheets of 17 to MaxRows rows and 1 to MaxCols columns whose *)
(* status block holds, from column B to the last column, a number naming   *)
(* the cell it starts in; one cell of the block may be absent.             *)
(***************************************************************************)
Tag(r, c) == Num(r * 10 + c)

Block(nr, nc) ==
    { p \in (FIRST_ROW..LAST_ROW) \X (FIRST_COL..nc) : p[1] <= nr }

InitLayout ==
    \E nr \in (LAST_ROW - 2)..MaxRows, nc \in 1..MaxCols :
    \E hole \in Block(nr, nc) \cup { << 0, 0 >> } :
        InitWith(Sheet(nr, nc,
                       [p \in Block(nr, nc) |->
                           IF p = hole THEN None ELSE Tag(p[1], p[2])]))

SpecLayout == InitLayout /\ [][Next]_vars

(***************************************************************************)
(* SpecMalformed: sheets in which any of the three labels is absent and    *)
(* one sample cell of the three rows may hold text or be absent; a bare    *)
(* sheet has no sample headers and no status values, so that its sample    *)
(* columns hold numbers only.                                              *)
(***************************************************************************)
DataRows == { ROW_METRIC, ROW_SCORE, ROW_P_VALUE }

BareCells(nc) ==
    { p \in ({1} \cup (FIRST_ROW..LAST_ROW)) \X (FIRST_COL..nc) :
        p[1] = 1 => p[2] >= FIRST_SAMPLE_COL }

InitMalformed ==
    \E ns \in 1..MaxSamples, bare \in BOOLEAN :
    \E present \in SUBSET DataRows :
    \E bad \in (DataRows \X (FIRST_SAMPLE_COL..(FIRST_SAMPLE_COL - 1 + ns)))
               \cup { << 0, 0 >> } :
    \E value \in { Str("abc"), None, Num(0) } :
        InitWith(Sheet(MaxRows, FIRST_SAMPLE_COL - 1 + ns,
                       [p \in { q \in { bad } : q # << 0, 0 >> } |-> value]
                       @@ [p \in { << r, 1 >> : r \in DataRows \ present }
                             |-> None]
                       @@ [p \in IF bare
                                 THEN BareCells(FIRST_SAMPLE_COL - 1 + ns)
                                 ELSE {} |-> None]))

SpecMalformed == InitMalformed /\ [][Next]_vars

(***************************************************************************)
(* Properties of mark_other_metrics.                                       *)
(***************************************************************************)
SampleCols == FIRST_SAMPLE_COL..max_column(df)
Rows == 1..Len(df)
LabelOf(r) == df[r][1]
LowerOf(r) == df[r][2]
UpperOf(r) == df[r][3]
IsConfigured(v) == v.t = "str" /\ v.s \in Range(metrics_to_find)
OtherDone == pc \in {"other_marked", "done"}

\* C1: once mark_other_metrics has run, in every row labelled with a
\* configured metric whose limits L and U are both numbers, a numeric sample
\* cell is highlighted iff its value is below L or above U; a value equal to
\* L or to U is not highlighted.
C1_TwoSided ==
    OtherDone =>
        \A r \in Rows, s \in SampleCols :
            ( /\ IsConfigured(LabelOf(r))
              /\ IsNum(LowerOf(r)) /\ IsNum(UpperOf(r)) /\ IsNum(df[r][s]) )
            => ( << r, s >> \in hl
                   <=> ( \/ df[r][s].n < LowerOf(r).n
                         \/ df[r][s].n > UpperOf(r).n ) )

\* A finished run in which one row has a value below L that is highlighted,
\* a value equal to U that is not, and L < U.
C1_Witness ==
    /\ pc = "done"
    /\ \E r \in Rows, s1 \in SampleCols, s2 \in SampleCols :
          /\ IsConfigured(LabelOf(r))
          /\ IsNum(LowerOf(r)) /\ IsNum(UpperOf(r))
          /\ LowerOf(r).n < UpperOf(r).n
          /\ IsNum(df[r][s1]) /\ df[r][s1].n < LowerOf(r).n
          /\ << r, s1 >> \in hl
          /\ df[r][s2] = UpperOf(r)
          /\ << r, s2 >> \notin hl

\* C5: once mark_other_metrics has run, in every row labelled with a
\* configured metric a numeric sample cell is highlighted iff v < L when U is
\* NA and L a number, iff v > U when L is NA and U a number, and never when
\* both limits are NA.
C5_OneSided ==
    OtherDone =>
        \A r \in Rows, s \in SampleCols :
            (IsConfigured(LabelOf(r)) /\ IsNum(df[r][s])) =>
                /\ (UpperOf(r) = NA /\ IsNum(LowerOf(r)))
                     => (<< r, s >> \in hl <=> df[r][s].n < LowerOf(r).n)
                /\ (LowerOf(r) = NA /\ IsNum(UpperOf(r)))
                     => (<< r, s >> \in hl <=> df[r][s].n > UpperOf(r).n)
                /\ (LowerOf(r) = NA /\ UpperOf(r) = NA)
                     => << r, s >> \notin hl

\* A finished run with an upper limit of NA in which a value below L is
\* highlighted and a value above L is not.
C5_Witness ==
    /\ pc = "done"
    /\ \E r \in Rows, s1 \in SampleCols, s2 \in SampleCols :
          /\ IsConfigured(LabelOf(r))
          /\ UpperOf(r) = NA /\ IsNum(LowerOf(r))
          /\ IsNum(df[r][s1]) /\ df[r][s1].n < LowerOf(r).n
          /\ << r, s1 >> \in hl
          /\ IsNum(df[r][s2]) /\ df[r][s2].n > LowerOf(r).n
          /\ << r, s2 >> \notin hl

\* C6: a sample cell holding NA in a row labelled with a configured metric is
\* never highlighted and mark_other_metrics never raises at it, whatever the
\* limits of the row are.
C6_NaValue ==
    \A r \in Rows, s \in SampleCols :
        (IsConfigured(LabelOf(r)) /\ df[r][s] = NA) =>
            /\ << r, s >> \notin hl
            /\ ~(err.pass = "mark_other_metrics" /\ err.row = r /\ err.col = s)

\* A finished run with an NA sample value in a row whose lower limit is a
\* number and whose upper limit is NA, next to a highlighted numeric value.
C6_Witness ==
    /\ pc = "done"
    /\ \E r \in Rows, s1 \in SampleCols, s2 \in SampleCols :
          /\ IsConfigured(LabelOf(r))
          /\ IsNum(LowerOf(r)) /\ UpperOf(r) = NA
          /\ df[r][s1] = NA /\ << r, s1 >> \notin hl
          /\ << r, s2 >> \in hl

(***************************************************************************)
(* Properties of mark_contamination_metrics.                               *)
(***************************************************************************)
ScoreRows == { r \in Rows : LabelOf(r) = Str(elements_to_find[1]) }
PValueRows == { r \in Rows : LabelOf(r) = Str(elements_to_find[2]) }
ContaminationDone == pc \in {"contamination_marked", "other_marked", "done"}
SharedLimits(rs, rp) ==
    /\ IsNum(LowerOf(rs)) /\ IsNum(UpperOf(rs))
    /\ LowerOf(rp) = LowerOf(rs) /\ UpperOf(rp) = UpperOf(rs)
Outside(v, r) ==
    IsNum(v) /\ (v.n < LowerOf(r).n \/ v.n > UpperOf(r).n)

Ran(pass) == pass \in Range(passes)
FalseOutsideStatusRow ==
    \E r \in Rows, c \in 1..max_column(df) :
        df[r][c] = FALSE_STRING /\ r # STATUS_ROW
FalseOfStatusRow ==
    { << STATUS_ROW, c >> : c \in { k \in 1..max_column(df) :
                                      df[STATUS_ROW][k] = FALSE_STRING } }

\* C3: when mark_false has run on a shifted sheet that holds FALSE in a row
\* other than 17, the run has ended with the error of mark_false: no later
\* pass has run, the workbook was not saved and the output file is gone.
C3_IntegrityViolation ==
    (Ran("mark_false") /\ FalseOutsideStatusRow) =>
        /\ pc = "error"
        /\ err.kind = "TypeError" /\ err.pass = "mark_false"
        /\ passes = << "move_rows", "mark_false" >>
        /\ ~saved
        /\ ~fileExists

\* An aborted run whose sheet holds FALSE outside row 17, after a FALSE of
\* row 17 was highlighted in memory.
C3_Witness ==
    /\ Ran("mark_false") /\ FalseOutsideStatusRow
    /\ pc = "error" /\ ~fileExists
    /\ hl # {}

\* C4: when mark_false has run on a shifted sheet that holds FALSE in row 17
\* only, it raised no error, the file is still there, and the cells it
\* highlighted are exactly the cells of row 17 equal to FALSE.
C4_StatusRowOnly ==
    (Ran("mark_false") /\ ~FalseOutsideStatusRow) =>
        /\ err.pass # "mark_false"
        /\ fileExists
        /\ FalseOfStatusRow \subseteq hl
        /\ pc = "false_marked" => hl = FalseOfStatusRow

\* mark_false has just highlighted two or more cells of row 17, the label
\* cell of column A among them.
C4_Witness ==
    /\ pc = "false_marked"
    /\ hl = FalseOfStatusRow
    /\ Cardinality(hl) >= 2
    /\ << STATUS_ROW, 1 >> \in hl

(***************************************************************************)
(* Properties of move_rows.                                                *)
(***************************************************************************)
Max(a, b) == IF a < b THEN b ELSE a
BlockRows == FIRST_ROW..LAST_ROW

\* What every version of the claim says of the sheet w and the sheet w2 that
\* move_rows makes of it, but for columns B and C.
MovedRight(w, w2) ==
    /\ Len(w2) = Len(w)
    /\ \A r \in 1..Len(w2) : Len(w2[r]) = max_column(w)
    /\ \A r \in 1..Len(w) : r \notin BlockRows => w2[r] = w[r]
    /\ \A r \in BlockRows :
          /\ w2[r][1] = w[r][1]
          /\ \A c \in FIRST_COL..(max_column(w) - SHIFT) :
                w2[r][c + SHIFT] = w[r][c]

\* C7 as claimed: on a sheet of at least 19 rows and C >= 4 columns,
\* move_rows moves the cells of columns B..(C-2) of rows 16-19 two columns
\* to the right, leaves columns B and C of those rows empty, and leaves
\* column A, every other row and the size of the sheet as they were.
C7_ColumnsBAndCEmpty ==
    [][ ( /\ pc = "start"
          /\ Len(ws) >= LAST_ROW
          /\ max_column(ws) >= FIRST_COL + SHIFT )
        => /\ pc' = "moved"
           /\ MovedRight(ws, ws')
           /\ \A r \in BlockRows : ws'[r][2] = None /\ ws'[r][3] = None ]_vars

\* C7 amended: column B of those rows ends up empty; column C ends up empty
\* when C >= 5 and keeps its content when C = 4.
C7_ColumnCEmptyFromFiveColumns ==
    [][ ( /\ pc = "start"
          /\ Len(ws) >= LAST_ROW
          /\ max_column(ws) >= FIRST_COL + SHIFT )
        => /\ pc' = "moved"
           /\ MovedRight(ws, ws')
           /\ \A r \in BlockRows :
                 /\ ws'[r][2] = None
                 /\ ws'[r][3] = IF max_column(ws) = FIRST_COL + SHIFT
                                THEN ws[r][3] ELSE None ]_vars

\* A shifted sheet of MaxRows rows and MaxCols columns: every cell of columns
\* D.. of the block holds the number of the cell two columns to its left.
C7_Witness ==
    /\ pc = "moved"
    /\ Len(ws) = MaxRows /\ max_column(ws) = MaxCols
    /\ ws[MaxRows][1] = Str("[Notes]")
    /\ \A r \in BlockRows :
          /\ ws[r][2] = None /\ ws[r][3] = None
          /\ \A c \in (FIRST_COL + SHIFT)..MaxCols : ws[r][c] = Tag(r, c - SHIFT)

\* C10 as claimed: on a sheet with fewer than 19 rows or fewer than 4 columns
\* move_rows raises and the run ends there.
C10_ShortOrNarrowSheetFails ==
    [][ ( /\ pc = "start"
          /\ (Len(ws) < LAST_ROW \/ max_column(ws) < FIRST_COL + SHIFT) )
        => (pc' = "error" /\ err'.pass = "move_rows") ]_vars

\* C10 amended: on a sheet with fewer than 4 columns move_rows raises
\* ValueError and the run ends before any scanner pass, highlight or save;
\* on any other sheet, one of fewer than 19 rows included, it raises nothing
\* and leaves a sheet of at least 19 rows.
C10_NarrowSheetFails ==
    /\ [][ pc = "start" =>
             IF max_column(ws) < FIRST_COL + SHIFT
             THEN /\ pc' = "error"
                  /\ err' = Raised("ValueError", "move_rows", 0, 0)
                  /\ ws' = ws
             ELSE /\ pc' = "moved"
                  /\ err' = NoError
                  /\ Len(ws') = Max(Len(ws), LAST_ROW) ]_vars
    /\ [](err.pass = "move_rows" =>
             /\ pc = "error"
             /\ passes = << "move_rows" >>
             /\ hl = {}
             /\ ~saved)

\* A run that move_rows has ended on a sheet of three columns.
C10_Witness ==
    /\ pc = "error"
    /\ err = Raised("ValueError", "move_rows", 0, 0)
    /\ max_column(ws) = FIRST_COL + SHIFT - 1
    /\ passes = << "move_rows" >>

(***************************************************************************)
(* Missing labels and values that cannot be compared.                      *)
(***************************************************************************)
MissingLabels ==
    { l \in Range(metrics_to_find) \cup Range(elements_to_find) :
        StackIndexOf(df, l) = << >> }

\* C8: a configured label that does not occur in the sheet raises no error:
\* the run does not end with the error of a local that was never bound.
C8_MissingMetricNonFatal ==
    MissingLabels # {} => ~(pc = "error" /\ err.kind = "UnboundLocalError")

\* C9: a sample cell that is empty or holds text other than NA, in a row of
\* a configured metric or of the contamination pair whose limits are
\* numbers, raises no error that ends the run.
C9_IncomparableNonFatal ==
    ~( /\ pc = "error"
       /\ err.kind = "TypeError"
       /\ err.pass \in {"mark_contamination_metrics", "mark_other_metrics"}
       /\ err.row \in Rows
       /\ \/ df[err.row][err.col].t = "none"
          \/ IsStr(df[err.row][err.col]) /\ df[err.row][err.col] # NA
       /\ IsNum(LowerOf(err.row)) /\ IsNum(UpperOf(err.row)) )

====
